---- MODULE Spec2Model ----
(***************************************************************************)
(* Model of reminder_mcp.py: the MCP tools that render an AppleScript,     *)
(* run it through osascript and parse its text output.                     *)
(*                                                                         *)
(* A Python str is a sequence of one-character strings.  None is the       *)
(* record [some |-> FALSE]; a str result s is [some |-> TRUE, v |-> s].    *)
(***************************************************************************)
EXTENDS Integers, Sequences, FiniteSets, TLC

VARIABLES
    reminders,   \* the Reminders application: sequence of [name, body, completed]
    call,        \* the last tool call: [tool, args]
    response,    \* the value the last tool call returned
    procs,       \* the osascript processes the last tool call spawned
    served       \* the number of tool calls the server has handled

vars == <<reminders, call, response, procs, served>>

----------------------------------------------------------------------------
(* Characters and Python string primitives *)

DQ == "\""
BS == "\\"
NL == "\n"
SECT == "sect"     \* the section sign of the event delimiter

NoneVal == [some |-> FALSE]
Some(s) == [some |-> TRUE, v |-> s]

\* truthiness of an Optional[str]: `if result:`
Truthy(r) == r.some /\ r.v # <<>>

IsSpace(c) == c \in {" ", NL, "\t"}

RECURSIVE lstrip(_)
lstrip(s) ==
    IF s = <<>> THEN <<>>
    ELSE IF IsSpace(Head(s)) THEN lstrip(Tail(s)) ELSE s

RECURSIVE rstrip(_)
rstrip(s) ==
    IF s = <<>> THEN <<>>
    ELSE IF IsSpace(s[Len(s)]) THEN rstrip(SubSeq(s, 1, Len(s) - 1)) ELSE s

\* str.strip()
strip(s) == rstrip(lstrip(s))

\* s[i..] starts with sub
StartsAt(s, sub, i) ==
    /\ i + Len(sub) - 1 <= Len(s)
    /\ \A k \in 1..Len(sub) : s[i + k - 1] = sub[k]

RECURSIVE FindFrom(_, _, _)
FindFrom(s, sub, i) ==
    IF i + Len(sub) - 1 > Len(s) THEN 0
    ELSE IF StartsAt(s, sub, i) THEN i
    ELSE FindFrom(s, sub, i + 1)

\* str.find(sub): index of the first occurrence, 0 when there is none
Find(s, sub) == FindFrom(s, sub, 1)

\* `sub in s`
Contains(s, sub) == sub = <<>> \/ Find(s, sub) # 0

\* str.split(sep, maxsplit); maxsplit = -1 is "no limit"
RECURSIVE split(_, _, _)
split(s, sep, maxsplit) ==
    LET i == Find(s, sep) IN
    IF maxsplit = 0 \/ i = 0 THEN <<s>>
    ELSE <<SubSeq(s, 1, i - 1)>>
         \o split(SubSeq(s, i + Len(sep), Len(s)), sep,
                  IF maxsplit < 0 THEN maxsplit ELSE maxsplit - 1)

\* sep.join(parts)
RECURSIVE Join(_, _)
Join(parts, sep) ==
    IF parts = <<>> THEN <<>>
    ELSE IF Len(parts) = 1 THEN parts[1]
    ELSE parts[1] \o sep \o Join(Tail(parts), sep)

NOT_FOUND == <<"n", "o", "t", " ", "f", "o", "u", "n", "d">>
COMPLETED == <<"c", "o", "m", "p", "l", "e", "t", "e", "d">>
DELETED   == <<"d", "e", "l", "e", "t", "e", "d">>
UPDATED   == <<"u", "p", "d", "a", "t", "e", "d">>
ADDED     == <<"a", "d", "d", "e", "d">>
TRUE_STR  == <<"t", "r", "u", "e">>
FALSE_STR == <<"f", "a", "l", "s", "e">>
COMMA     == <<",">>
COMMA_SP  == <<",", " ">>

----------------------------------------------------------------------------
(* run_applescript and the parsers of the reminder tools *)

\* A finished osascript process: [exit, stdout, stderr].
\* check=True raises CalledProcessError on a non-zero exit; the handler
\* prints stderr and returns None.
run_applescript(p) ==
    IF p.exit = 0 THEN Some(strip(p.stdout)) ELSE NoneVal

\* list_reminders testing `result is not None` instead of `result`
list_reminders_noEmptyCheck(result) ==
    IF result.some THEN split(result.v, COMMA_SP, -1) ELSE <<>>

list_reminders(result) ==
    IF Truthy(result) THEN split(result.v, COMMA_SP, -1) ELSE <<>>

\* get without the comparison against the sentinel
get_keepSentinel(result) ==
    IF Truthy(result)
    THEN LET parts == split(result.v, COMMA, 2) IN
         [some |-> TRUE,
          name |-> parts[1],
          body |-> IF Len(parts) > 1 THEN parts[2] ELSE <<>>,
          completed |-> IF Len(parts) > 2 THEN parts[3] = TRUE_STR ELSE FALSE]
    ELSE NoneVal

get(result) ==
    IF Truthy(result) /\ result.v # NOT_FOUND
    THEN LET parts == split(result.v, COMMA, 2) IN
         [some |-> TRUE,
          name |-> parts[1],
          body |-> IF Len(parts) > 1 THEN parts[2] ELSE <<>>,
          completed |-> IF Len(parts) > 2 THEN parts[3] = TRUE_STR ELSE FALSE]
    ELSE NoneVal

done(result) == result.some /\ result.v = COMPLETED

delete(result) == result.some /\ result.v = DELETED

update(result) == result.some /\ result.v = UPDATED

add(result) == result.some /\ result.v = ADDED

----------------------------------------------------------------------------
(* Script rendering: the f-string templates *)

\* "{arg}" inside an f-string: the argument is pasted between two quotes.
Interp(arg) == <<DQ>> \o arg \o <<DQ>>

\* A rendered script is its kind and the string literals that hold arguments.
RenderList == [kind |-> "list", lits |-> <<>>]
RenderGet(name) == [kind |-> "get", lits |-> <<Interp(name)>>]
RenderDone(name) == [kind |-> "done", lits |-> <<Interp(name)>>]
RenderDelete(name) == [kind |-> "delete", lits |-> <<Interp(name)>>]
RenderUpdate(old_name, new_name) ==
    [kind |-> "update", lits |-> <<Interp(old_name), Interp(new_name)>>]
RenderAdd(name, body) ==
    [kind |-> "add", lits |-> <<Interp(name), Interp(body)>>]

----------------------------------------------------------------------------
(* The host: osascript running a rendered script against Reminders *)

Unescape(c) == IF c = "n" THEN NL ELSE IF c = "t" THEN "\t" ELSE c

\* AppleScript reads a string literal from its opening quote up to the first
\* quote that is not preceded by a backslash.
RECURSIVE ScanLiteral(_, _, _)
ScanLiteral(frag, i, acc) ==
    IF i > Len(frag) THEN [closed |-> FALSE, value |-> acc, rest |-> <<>>]
    ELSE IF frag[i] = DQ
         THEN [closed |-> TRUE, value |-> acc,
               rest |-> SubSeq(frag, i + 1, Len(frag))]
    ELSE IF frag[i] = BS /\ i < Len(frag)
         THEN ScanLiteral(frag, i + 2, Append(acc, Unescape(frag[i + 1])))
    ELSE ScanLiteral(frag, i + 1, Append(acc, frag[i]))

ReadLiteral(frag) == ScanLiteral(frag, 2, <<>>)

\* The literal ends where the template meant it to end.
LiteralIntact(frag) == ReadLiteral(frag).closed /\ ReadLiteral(frag).rest = <<>>

Compiles(script) == \A k \in 1..Len(script.lits) : LiteralIntact(script.lits[k])

\* `reminders whose name is "..."`, then `item 1 of matchingReminders`
FirstMatch(rems, name) ==
    IF \E i \in 1..Len(rems) : rems[i].name = name
    THEN CHOOSE i \in 1..Len(rems) :
            /\ rems[i].name = name
            /\ \A j \in 1..(i - 1) : rems[j].name # name
    ELSE 0

RECURSIVE OpenNames(_)
OpenNames(rems) ==
    IF rems = <<>> THEN <<>>
    ELSE IF Head(rems).completed THEN OpenNames(Tail(rems))
    ELSE <<Head(rems).name>> \o OpenNames(Tail(rems))

RemoveAt(s, i) == SubSeq(s, 1, i - 1) \o SubSeq(s, i + 1, Len(s))

BoolText(b) == IF b THEN TRUE_STR ELSE FALSE_STR

Exited(status, out, err, rems) ==
    [exit |-> status, stdout |-> out, stderr |-> err, reminders |-> rems]

Says(text, rems) == Exited(0, text \o <<NL>>, "", rems)

HostList(rems) == Says(Join(OpenNames(rems), COMMA_SP), rems)

HostGet(rems, name) ==
    LET i == FirstMatch(rems, name) IN
    IF i > 0
    THEN Says(rems[i].name \o COMMA \o rems[i].body \o COMMA
              \o BoolText(rems[i].completed), rems)
    ELSE Says(NOT_FOUND, rems)

HostDone(rems, name) ==
    LET i == FirstMatch(rems, name) IN
    IF i > 0
    THEN Says(COMPLETED, [rems EXCEPT ![i].completed = TRUE])
    ELSE Says(NOT_FOUND, rems)

HostDelete(rems, name) ==
    LET i == FirstMatch(rems, name) IN
    IF i > 0 THEN Says(DELETED, RemoveAt(rems, i)) ELSE Says(NOT_FOUND, rems)

HostUpdate(rems, old_name, new_name) ==
    LET i == FirstMatch(rems, old_name) IN
    IF i > 0
    THEN Says(UPDATED, [rems EXCEPT ![i].name = new_name])
    ELSE Says(NOT_FOUND, rems)

HostAdd(rems, name, body) ==
    Says(ADDED, Append(rems, [name |-> name, body |-> body, completed |-> FALSE]))

\* One osascript process.  up = FALSE: the application does not answer
\* (not authorised, not running) and osascript exits non-zero.
HostRun(script, rems, up) ==
    IF ~up THEN Exited(1, <<>>, "execution error", rems)
    ELSE IF ~Compiles(script) THEN Exited(1, <<>>, "syntax error", rems)
    ELSE LET arg(k) == ReadLiteral(script.lits[k]).value IN
         CASE script.kind = "list" -> HostList(rems)
           [] script.kind = "get" -> HostGet(rems, arg(1))
           [] script.kind = "done" -> HostDone(rems, arg(1))
           [] script.kind = "delete" -> HostDelete(rems, arg(1))
           [] script.kind = "update" -> HostUpdate(rems, arg(1), arg(2))
           [] script.kind = "add" -> HostAdd(rems, arg(1), arg(2))

Proc(script, o) ==
    [script |-> script, exit |-> o.exit, stdout |-> o.stdout, stderr |-> o.stderr]

----------------------------------------------------------------------------
(* Inputs *)

MaxReminders == 2
MaxCalls == 2

Names == { <<"a">>, <<"a", ",", " ", "b">>, <<"a", DQ, "b">> }
Bodies == { <<>>, <<"x", ",", "y">> }

Reminder == [name : Names, body : Bodies, completed : BOOLEAN]

RECURSIVE SeqsUpTo(_, _)
SeqsUpTo(S, n) ==
    IF n = 0 THEN {<<>>}
    ELSE LET shorter == SeqsUpTo(S, n - 1) IN
         shorter \cup {Append(s, x) : s \in {t \in shorter : Len(t) = n - 1}, x \in S}

----------------------------------------------------------------------------
(* The reminder tools against the live Reminders application *)

Init ==
    /\ reminders \in SeqsUpTo(Reminder, MaxReminders)
    /\ call = [tool |-> "none"]
    /\ response = [none |-> TRUE]
    /\ procs = <<>>
    /\ served = 0

\* Every handler below runs one script through run_applescript and wraps
\* what its function returns.

list_reminders_mcp ==
    \E up \in BOOLEAN :
        LET o == HostRun(RenderList, reminders, up) IN
        /\ served < MaxCalls
        /\ served' = served + 1
        /\ call' = [tool |-> "list_reminders", args |-> [none |-> TRUE]]
        /\ procs' = <<Proc(RenderList, o)>>
        /\ response' = [reminders |-> list_reminders(run_applescript(o))]
        /\ reminders' = o.reminders

get_reminder ==
    \E name \in Names, up \in BOOLEAN :
        LET o == HostRun(RenderGet(name), reminders, up) IN
        /\ served < MaxCalls
        /\ served' = served + 1
        /\ call' = [tool |-> "get_reminder", args |-> [name |-> name]]
        /\ procs' = <<Proc(RenderGet(name), o)>>
        /\ response' = [result |-> get(run_applescript(o))]
        /\ reminders' = o.reminders

complete_reminder ==
    \E name \in Names, up \in BOOLEAN :
        LET o == HostRun(RenderDone(name), reminders, up) IN
        /\ served < MaxCalls
        /\ served' = served + 1
        /\ call' = [tool |-> "complete_reminder", args |-> [name |-> name]]
        /\ procs' = <<Proc(RenderDone(name), o)>>
        /\ response' = [result |-> done(run_applescript(o))]
        /\ reminders' = o.reminders

delete_reminder ==
    \E name \in Names, up \in BOOLEAN :
        LET o == HostRun(RenderDelete(name), reminders, up) IN
        /\ served < MaxCalls
        /\ served' = served + 1
        /\ call' = [tool |-> "delete_reminder", args |-> [name |-> name]]
        /\ procs' = <<Proc(RenderDelete(name), o)>>
        /\ response' = [result |-> delete(run_applescript(o))]
        /\ reminders' = o.reminders

update_reminder ==
    \E old_name \in Names, new_name \in Names, up \in BOOLEAN :
        LET o == HostRun(RenderUpdate(old_name, new_name), reminders, up) IN
        /\ served < MaxCalls
        /\ served' = served + 1
        /\ call' = [tool |-> "update_reminder",
                    args |-> [old_name |-> old_name, new_name |-> new_name]]
        /\ procs' = <<Proc(RenderUpdate(old_name, new_name), o)>>
        /\ response' = [result |-> update(run_applescript(o))]
        /\ reminders' = o.reminders

add_reminder ==
    \E name \in Names, body \in Bodies, up \in BOOLEAN :
        LET o == HostRun(RenderAdd(name, body), reminders, up) IN
        /\ Len(reminders) < MaxReminders
        /\ served < MaxCalls
        /\ served' = served + 1
        /\ call' = [tool |-> "add_reminder", args |-> [name |-> name, body |-> body]]
        /\ procs' = <<Proc(RenderAdd(name, body), o)>>
        /\ response' = [result |-> add(run_applescript(o))]
        /\ reminders' = o.reminders

Next ==
    \/ list_reminders_mcp
    \/ get_reminder
    \/ complete_reminder
    \/ delete_reminder
    \/ update_reminder
    \/ add_reminder

Spec == Init /\ [][Next]_vars

----------------------------------------------------------------------------
(* Calendar: get_calendars and json.loads *)

RECURSIVE SkipWs(_, _)
SkipWs(s, i) == IF i <= Len(s) /\ IsSpace(s[i]) THEN SkipWs(s, i + 1) ELSE i

JsonError == [ok |-> FALSE, v |-> <<>>, next |-> 0]

\* A JSON string, read from the character after its opening quote.
RECURSIVE JsonString(_, _, _)
JsonString(s, i, acc) ==
    IF i > Len(s) THEN JsonError
    ELSE IF s[i] = DQ THEN [ok |-> TRUE, v |-> acc, next |-> i + 1]
    ELSE IF s[i] = BS
         THEN IF i < Len(s) /\ s[i + 1] \in {DQ, BS, "/", "n", "t"}
              THEN JsonString(s, i + 2, Append(acc, Unescape(s[i + 1])))
              ELSE JsonError
    ELSE IF s[i] \in {NL, "\t"} THEN JsonError
    ELSE JsonString(s, i + 1, Append(acc, s[i]))

\* The elements of a JSON array of strings, read from an element's start.
RECURSIVE JsonElems(_, _, _)
JsonElems(s, i, acc) ==
    LET a == SkipWs(s, i) IN
    IF a > Len(s) \/ s[a] # DQ THEN JsonError
    ELSE LET str == JsonString(s, a + 1, <<>>) IN
         IF ~str.ok THEN JsonError
         ELSE LET j == SkipWs(s, str.next) IN
              IF j > Len(s) THEN JsonError
              ELSE IF s[j] = "]"
                   THEN IF SkipWs(s, j + 1) > Len(s)
                        THEN [ok |-> TRUE, v |-> Append(acc, str.v), next |-> j + 1]
                        ELSE JsonError
              ELSE IF s[j] = "," THEN JsonElems(s, j + 1, Append(acc, str.v))
              ELSE JsonError

\* json.loads on the texts the calendar script can produce: an array of
\* strings, or a JSONDecodeError (ok = FALSE).
json_loads(s) ==
    LET i == SkipWs(s, 1) IN
    IF i > Len(s) \/ s[i] # "[" THEN JsonError
    ELSE LET j == SkipWs(s, i + 1) IN
         IF j <= Len(s) /\ s[j] = "]"
         THEN IF SkipWs(s, j + 1) > Len(s)
              THEN [ok |-> TRUE, v |-> <<>>, next |-> j + 1]
              ELSE JsonError
         ELSE JsonElems(s, j, <<>>)

get_calendars(result) ==
    IF Truthy(result)
    THEN LET parsed == json_loads(result.v) IN
         IF parsed.ok THEN parsed.v ELSE <<>>
    ELSE <<>>

RenderCalendars == [kind |-> "calendars", lits |-> <<>>]

----------------------------------------------------------------------------
(* Dates: datetime.fromisoformat *)

\* A date text is the sequence of its numeric fields: YYYY-MM-DD is
\* <<y, m, d>>, YYYY-MM-DDThh:mm:ss is <<y, m, d, hh, mm, ss>>; a text that
\* is not in ISO form has some other length.
IsLeap(y) == (y % 4 = 0 /\ y % 100 # 0) \/ y % 400 = 0

DaysInMonth(y, m) ==
    IF m = 2 THEN (IF IsLeap(y) THEN 29 ELSE 28)
    ELSE IF m \in {4, 6, 9, 11} THEN 30 ELSE 31

ValueError == [ok |-> FALSE]

fromisoformat(t) ==
    IF /\ Len(t) \in {3, 6}
       /\ t[1] \in 1..9999
       /\ t[2] \in 1..12
       /\ t[3] \in 1..DaysInMonth(t[1], t[2])
       /\ Len(t) = 6 => (t[4] \in 0..23 /\ t[5] \in 0..59 /\ t[6] \in 0..59)
    THEN [ok |-> TRUE, year |-> t[1], month |-> t[2], day |-> t[3],
          hour |-> IF Len(t) = 6 THEN t[4] ELSE 0,
          minute |-> IF Len(t) = 6 THEN t[5] ELSE 0,
          second |-> IF Len(t) = 6 THEN t[6] ELSE 0]
    ELSE ValueError

----------------------------------------------------------------------------
(* create_calendar_event and get_calendar_events *)

SUCCESSFULLY == <<"s", "u", "c", "c", "e", "s", "s", "f", "u", "l", "l", "y">>
EVENT_CREATED == <<"E", "v", "e", "n", "t", " ", "c", "r", "e", "a", "t", "e", "d", " ">>
IN_CAL == <<" ", "i", "n", " ">>
FROM == <<" ", "f", "r", "o", "m", " ">>
DELIM == <<SECT, SECT, SECT>>
BACKSLASH_N == <<BS, "n">>

RenderCreate(calendar_name, title, s, e, location, notes) ==
    [kind |-> "create",
     lits |-> <<Interp(calendar_name), Interp(title), Interp(location), Interp(notes),
                Interp(EVENT_CREATED \o SUCCESSFULLY \o IN_CAL \o calendar_name \o FROM)>>,
     start |-> <<s.year, s.month, s.day, s.hour, s.minute, 0>>,
     end |-> <<e.year, e.month, e.day, e.hour, e.minute, 0>>]

RenderEvents(calendar_name, s, e) ==
    [kind |-> "events",
     lits |-> <<Interp(calendar_name)>>,
     start |-> <<s.year, s.month, s.day, 0, 0, 0>>,
     end |-> <<e.year, e.month, e.day, 23, 59, 59>>]

\* create_calendar_event running the event script a second time when the
\* first run gave no result
create_calendar_event_retry(title, start_date, end_date, calendar_name, location, notes, o1, o2) ==
    LET listing == ~calendar_name.some
        calendars == get_calendars(run_applescript(o1))
        first == IF listing THEN <<Proc(RenderCalendars, o1)>> ELSE <<>>
    IN
    IF listing /\ calendars = <<>> THEN [ret |-> FALSE, procs |-> first]
    ELSE LET cal == IF listing THEN calendars[1] ELSE calendar_name.v
             s == fromisoformat(start_date)
             e == fromisoformat(end_date)
         IN
         IF ~(s.ok /\ e.ok) THEN [ret |-> FALSE, procs |-> first]
         ELSE LET script == RenderCreate(cal, title, s, e, location, notes)
                  result == run_applescript(o2)
              IN [ret |-> result.some /\ Contains(result.v, SUCCESSFULLY),
                  procs |-> first \o <<Proc(script, o2)>>
                            \o (IF result.some THEN <<>> ELSE <<Proc(script, o2)>>)]

\* o1 is the process that lists the calendars, o2 the one that runs the
\* event script; each is spawned only where the code reaches it.
create_calendar_event(title, start_date, end_date, calendar_name, location, notes, o1, o2) ==
    LET listing == ~calendar_name.some
        calendars == get_calendars(run_applescript(o1))
        first == IF listing THEN <<Proc(RenderCalendars, o1)>> ELSE <<>>
    IN
    IF listing /\ calendars = <<>> THEN [ret |-> FALSE, procs |-> first]
    ELSE LET cal == IF listing THEN calendars[1] ELSE calendar_name.v
             s == fromisoformat(start_date)
             e == fromisoformat(end_date)
         IN
         IF ~(s.ok /\ e.ok) THEN [ret |-> FALSE, procs |-> first]
         ELSE LET script == RenderCreate(cal, title, s, e, location, notes)
                  result == run_applescript(o2)
              IN [ret |-> result.some /\ Contains(result.v, SUCCESSFULLY),
                  procs |-> first \o <<Proc(script, o2)>>]

\* the loop keeping only the lines that have all four fields
RECURSIVE ParseEvents_needFour(_)
ParseEvents_needFour(lines) ==
    IF lines = <<>> THEN <<>>
    ELSE LET line == Head(lines)
             parts == split(line, DELIM, -1)
         IN
         IF strip(line) = <<>> THEN ParseEvents_needFour(Tail(lines))
         ELSE IF Len(parts) >= 4
              THEN <<[title |-> parts[1], start |-> parts[2], end |-> parts[3],
                      location |-> parts[4]]>>
                   \o ParseEvents_needFour(Tail(lines))
         ELSE ParseEvents_needFour(Tail(lines))

\* the loop over the lines of the host's output
RECURSIVE ParseEvents(_)
ParseEvents(lines) ==
    IF lines = <<>> THEN <<>>
    ELSE LET line == Head(lines)
             parts == split(line, DELIM, -1)
         IN
         IF strip(line) = <<>> THEN ParseEvents(Tail(lines))
         ELSE IF Len(parts) >= 3
              THEN <<[title |-> parts[1], start |-> parts[2], end |-> parts[3],
                      location |-> IF Len(parts) > 3 THEN parts[4] ELSE <<>>]>>
                   \o ParseEvents(Tail(lines))
         ELSE ParseEvents(Tail(lines))

EventLines(text) == split(strip(text), BACKSLASH_N, -1)

get_calendar_events(start_date, end_date, calendar_name, o1, o2) ==
    LET listing == ~calendar_name.some
        calendars == get_calendars(run_applescript(o1))
        first == IF listing THEN <<Proc(RenderCalendars, o1)>> ELSE <<>>
    IN
    IF listing /\ calendars = <<>> THEN [ret |-> <<>>, procs |-> first]
    ELSE LET cal == IF listing THEN calendars[1] ELSE calendar_name.v
             s == fromisoformat(start_date)
             e == fromisoformat(end_date)
         IN
         IF ~(s.ok /\ e.ok) THEN [ret |-> <<>>, procs |-> first]
         ELSE LET script == RenderEvents(cal, s, e)
                  result == run_applescript(o2)
              IN [ret |-> IF Truthy(result) /\ strip(result.v) # <<>>
                          THEN ParseEvents(EventLines(result.v))
                          ELSE <<>>,
                  procs |-> first \o <<Proc(script, o2)>>]

----------------------------------------------------------------------------
(* get_current_time *)

WEEKDAY_JP == <<"getsuyoubi", "kayoubi", "suiyoubi", "mokuyoubi",
                "kin-youbi", "doyoubi", "nichiyoubi">>
WEEKDAY == <<"Monday", "Tuesday", "Wednesday", "Thursday",
             "Friday", "Saturday", "Sunday">>

\* now is datetime.now(): its fields and now.weekday() (0 = Monday)
get_current_time(now) ==
    [iso_format |-> <<now.year, "-", now.month, "-", now.day, "T",
                      now.hour, ":", now.minute, ":", now.second>>
                    \o (IF now.microsecond # 0 THEN <<".", now.microsecond>> ELSE <<>>),
     formatted |-> <<now.year, "nen", now.month, "gatsu", now.day, "nichi",
                     now.hour, "ji", now.minute, "fun", now.second, "byou">>,
     year |-> now.year, month |-> now.month, day |-> now.day,
     hour |-> now.hour, minute |-> now.minute, second |-> now.second,
     weekday |-> WEEKDAY[now.weekday + 1],
     weekday_jp |-> WEEKDAY_JP[now.weekday + 1]]

----------------------------------------------------------------------------
(* The tools against a stub host: every spawned process answers with one   *)
(* of a bounded set of outcomes, whatever the script.  A scenario is a     *)
(* fresh server and the calls made to it.                                  *)

MaxListNames == 3
MaxFields == 4
MaxCalendars == 2
MaxLines == 2
MaxEventFields == 5

StubFail == [exit |-> 1, stdout |-> <<>>, stderr |-> "execution error"]
StubOk(text) == [exit |-> 0, stdout |-> text \o <<NL>>, stderr |-> ""]

\* what `return remindersList` prints: the names joined by ", "
ListNames == { <<"A">>, <<"B">>, <<"C">>, <<>>, <<"A", ",", " ", "B">>,
               <<" ", "A", " ">> }
NameLists == SeqsUpTo(ListNames, MaxListNames)
EmitList(ns) == Join(ns, COMMA_SP)
StubListOut == {StubOk(EmitList(ns)) : ns \in NameLists} \cup {StubFail}

\* comma-joined records of one to MaxFields fields
RecordFields == { <<"a">>, TRUE_STR, <<>> }
FieldLists == SeqsUpTo(RecordFields, MaxFields) \ {<<>>}
StubGetOut ==
    {StubOk(Join(fs, COMMA)) : fs \in FieldLists} \cup {StubOk(NOT_FOUND), StubFail}

StubSentinelOut ==
    {StubOk(t) : t \in {NOT_FOUND, COMPLETED, DELETED, UPDATED, ADDED, <<>>}}
    \cup {StubFail}

\* the list the calendar script builds: ["name", "name"]
CalNames == { <<"h">>, <<"h", DQ>> }
CalLists == SeqsUpTo(CalNames, MaxCalendars)
EmitCalendars(ns) ==
    <<"[">> \o Join([i \in 1..Len(ns) |-> Interp(ns[i])], COMMA_SP) \o <<"]">>
StubCalendarsOut ==
    {StubOk(EmitCalendars(ns)) : ns \in CalLists} \cup {StubOk(<<>>), StubFail}

StubCreateOut ==
    {StubOk(EVENT_CREATED \o SUCCESSFULLY), StubOk(NOT_FOUND), StubOk(<<>>), StubFail}

\* event records: the k-th field of the i-th record is a letter and the digit i
Digits == <<"1", "2", "3", "4", "5", "6", "7", "8", "9">>
FieldLetters == <<"t", "s", "e", "l", "x", "y", "z">>
EventField(i, k) == <<FieldLetters[k], Digits[i]>>
EventFields(i, n) == [k \in 1..n |-> EventField(i, k)]
\* the i-th record cut to n fields
RecordShapes(i) == {EventFields(i, n) : n \in 1..MaxEventFields}

RECURSIVE RecordLists(_)
RecordLists(n) ==
    IF n = 0 THEN {<<>>}
    ELSE LET shorter == RecordLists(n - 1) IN
         shorter \cup {Append(rs, r) : rs \in {t \in shorter : Len(t) = n - 1},
                                       r \in RecordShapes(n)}

\* the event script ends every record with "\n", which AppleScript reads
\* as a line feed
RECURSIVE EmitEvents(_)
EmitEvents(rs) ==
    IF rs = <<>> THEN <<>>
    ELSE Join(Head(rs), DELIM) \o <<NL>> \o EmitEvents(Tail(rs))

StubEventsOut == {StubOk(EmitEvents(rs)) : rs \in RecordLists(MaxLines)} \cup {StubFail}

DateTexts == { <<2024, 1, 1, 0, 0, 0>>, <<2024, 2, 30, 0, 0, 0>>, <<>> }
Titles == { <<"m">>, <<"m", DQ>> }
Locations == { <<>> }
Notes == { <<>> }
CalendarArgs == { NoneVal, Some(<<"h">>), Some(<<"h", DQ>>) }
Clock == { [year |-> 2024, month |-> 1, day |-> 1, hour |-> 0, minute |-> 0,
            second |-> 0, microsecond |-> 0, weekday |-> 0],
           [year |-> 2024, month |-> 12, day |-> 31, hour |-> 23, minute |-> 59,
            second |-> 59, microsecond |-> 5, weekday |-> 1] }

Idle == [tool |-> "none"]

StubInit ==
    /\ reminders = <<>>
    /\ call = Idle
    /\ response = [none |-> TRUE]
    /\ procs = <<>>
    /\ served = 0

\* the server waits for a call and has not handled MaxCalls calls yet
Ready == call = Idle /\ served < MaxCalls

\* Every handler below runs its scripts against the stub.

stub_list_reminders ==
    /\ Ready
    /\ \E o \in StubListOut :
           /\ served' = served + 1
           /\ call' = [tool |-> "list_reminders", args |-> [none |-> TRUE]]
           /\ procs' = <<Proc(RenderList, o)>>
           /\ response' = [reminders |-> list_reminders(run_applescript(o))]
           /\ UNCHANGED reminders

stub_get_reminder ==
    /\ Ready
    /\ \E name \in Names, o \in StubGetOut :
           /\ served' = served + 1
           /\ call' = [tool |-> "get_reminder", args |-> [name |-> name]]
           /\ procs' = <<Proc(RenderGet(name), o)>>
           /\ response' = [result |-> get(run_applescript(o))]
           /\ UNCHANGED reminders

stub_complete_reminder ==
    /\ Ready
    /\ \E name \in Names, o \in StubSentinelOut :
           /\ served' = served + 1
           /\ call' = [tool |-> "complete_reminder", args |-> [name |-> name]]
           /\ procs' = <<Proc(RenderDone(name), o)>>
           /\ response' = [result |-> done(run_applescript(o))]
           /\ UNCHANGED reminders

stub_delete_reminder ==
    /\ Ready
    /\ \E name \in Names, o \in StubSentinelOut :
           /\ served' = served + 1
           /\ call' = [tool |-> "delete_reminder", args |-> [name |-> name]]
           /\ procs' = <<Proc(RenderDelete(name), o)>>
           /\ response' = [result |-> delete(run_applescript(o))]
           /\ UNCHANGED reminders

stub_update_reminder ==
    /\ Ready
    /\ \E old_name \in Names, new_name \in Names, o \in StubSentinelOut :
           /\ served' = served + 1
           /\ call' = [tool |-> "update_reminder", args |-> [old_name |-> old_name, new_name |-> new_name]]
           /\ procs' = <<Proc(RenderUpdate(old_name, new_name), o)>>
           /\ response' = [result |-> update(run_applescript(o))]
           /\ UNCHANGED reminders

stub_add_reminder ==
    /\ Ready
    /\ \E name \in Names, body \in Bodies, o \in StubSentinelOut :
           /\ served' = served + 1
           /\ call' = [tool |-> "add_reminder", args |-> [name |-> name, body |-> body]]
           /\ procs' = <<Proc(RenderAdd(name, body), o)>>
           /\ response' = [result |-> add(run_applescript(o))]
           /\ UNCHANGED reminders

list_calendars_mcp ==
    /\ Ready
    /\ \E o \in StubCalendarsOut :
           /\ served' = served + 1
           /\ call' = [tool |-> "list_calendars", args |-> [none |-> TRUE]]
           /\ procs' = <<Proc(RenderCalendars, o)>>
           /\ response' = [calendars |-> get_calendars(run_applescript(o))]
           /\ UNCHANGED reminders

create_calendar_event_mcp ==
    /\ Ready
    /\ \E title \in Titles, start_date \in DateTexts, end_date \in DateTexts,
          calendar_name \in CalendarArgs, location \in Locations, notes \in Notes,
          o1 \in StubCalendarsOut, o2 \in StubCreateOut :
           \E r \in {create_calendar_event(title, start_date, end_date, calendar_name,
                                           location, notes, o1, o2)} :
           /\ served' = served + 1
           /\ call' = [tool |-> "create_calendar_event",
                       args |-> [title |-> title, start_date |-> start_date,
                                 end_date |-> end_date, calendar_name |-> calendar_name,
                                 location |-> location, notes |-> notes]]
           /\ procs' = r.procs
           /\ response' = [result |-> IF r.ret THEN "Event created successfully"
                                      ELSE "Failed to create event"]
           /\ UNCHANGED reminders

get_calendar_events_mcp ==
    /\ Ready
    /\ \E start_date \in DateTexts, end_date \in DateTexts,
          calendar_name \in CalendarArgs,
          o1 \in StubCalendarsOut, o2 \in StubEventsOut :
           \E r \in {get_calendar_events(start_date, end_date, calendar_name, o1, o2)} :
           /\ served' = served + 1
           /\ call' = [tool |-> "get_calendar_events",
                       args |-> [start_date |-> start_date, end_date |-> end_date,
                                 calendar_name |-> calendar_name]]
           /\ procs' = r.procs
           /\ response' = [events |-> r.ret]
           /\ UNCHANGED reminders

get_current_time_mcp ==
    /\ Ready
    /\ \E now \in Clock :
           /\ served' = served + 1
           /\ call' = [tool |-> "get_current_time", args |-> [none |-> TRUE]]
           /\ procs' = <<>>
           /\ response' = get_current_time(now)
           /\ UNCHANGED reminders

\* the scenario is over: the server is started afresh for the next one
Restart ==
    /\ call # Idle
    /\ call' = Idle
    /\ response' = [none |-> TRUE]
    /\ procs' = <<>>
    /\ served' = 0
    /\ UNCHANGED reminders

StubNext ==
    \/ stub_list_reminders
    \/ stub_get_reminder
    \/ stub_complete_reminder
    \/ stub_delete_reminder
    \/ stub_update_reminder
    \/ stub_add_reminder
    \/ list_calendars_mcp
    \/ create_calendar_event_mcp
    \/ get_calendar_events_mcp
    \/ get_current_time_mcp
    \/ Restart

StubSpec == StubInit /\ [][StubNext]_vars

----------------------------------------------------------------------------
(* Properties *)

LastProc == procs[Len(procs)]

ReminderTools == {"list_reminders", "get_reminder", "complete_reminder",
                  "delete_reminder", "update_reminder", "add_reminder"}
EventTools == {"create_calendar_event", "get_calendar_events"}

\* the host ran the script and printed text
Printed(p, text) == p.exit = 0 /\ p.stdout = StubOk(text).stdout

DatesValid ==
    fromisoformat(call.args.start_date).ok /\ fromisoformat(call.args.end_date).ok

\* C1: when the host's output is the "not found" sentinel, get_reminder
\* returns {result: null} and complete_reminder, delete_reminder and
\* update_reminder return {result: false}; the call returns a value.
C1_NotFoundIsNegative ==
    (/\ call.tool \in {"get_reminder", "complete_reminder",
                       "delete_reminder", "update_reminder"}
     /\ Printed(procs[1], NOT_FOUND))
    => IF call.tool = "get_reminder"
       THEN response = [result |-> NoneVal]
       ELSE response = [result |-> FALSE]

C1_Witness ==
    /\ call.tool = "get_reminder"
    /\ Printed(procs[1], NOT_FOUND)
    /\ response = [result |-> NoneVal]

\* C2: when a spawned process exits non-zero, or exits zero with output
\* that does not parse, the response is a Failure that carries the raw
\* diagnostic text.
C2_FailureCarriesDiagnostic ==
    \A i \in 1..Len(procs) :
        (\/ procs[i].exit # 0
         \/ /\ procs[i].script.kind = "calendars"
            /\ strip(procs[i].stdout) # <<>>
            /\ ~json_loads(strip(procs[i].stdout)).ok)
        => /\ "failure" \in DOMAIN response
           /\ procs[i].exit # 0 => response.failure = procs[i].stderr

C4_QuotesEscaped ==
    \A i \in 1..Len(procs) :
        \A k \in 1..Len(procs[i].script.lits) :
            LiteralIntact(procs[i].script.lits[k])

\* C5: with a start_date or end_date that is not valid ISO-8601 text the
\* event tools spawn no process, calendar_name given or omitted, and
\* return their failure result.
C5_InvalidDateSpawnsNothing ==
    (call.tool \in EventTools /\ ~DatesValid) =>
        /\ procs = <<>>
        /\ call.tool = "create_calendar_event" =>
               response = [result |-> "Failed to create event"]
        /\ call.tool = "get_calendar_events" => response = [events |-> <<>>]

\* the records of a host output with n whole records, each of four fields
WholeRecords == {rs \in RecordLists(MaxLines) :
                    rs # <<>> /\ \A i \in 1..Len(rs) : Len(rs[i]) = 4}

EventOf(r) == [title |-> r[1], start |-> r[2], end |-> r[3], location |-> r[4]]

\* the events script ran and printed the records rs
PrintedEvents(rs) ==
    /\ call.tool = "get_calendar_events"
    /\ procs # <<>>
    /\ LastProc.script.kind = "events"
    /\ Printed(LastProc, EmitEvents(rs))

\* C6: a host output of N >= 1 records, one per line, gives exactly N
\* events, in order, each with the fields of its own record.
C6_OneEventPerRecord ==
    call.tool = "get_calendar_events" =>
        \A rs \in WholeRecords :
            PrintedEvents(rs) =>
                response.events = [i \in 1..Len(rs) |-> EventOf(rs[i])]

\* the get script ran and printed the fields fs joined by commas
PrintedFields(fs) ==
    /\ call.tool = "get_reminder"
    /\ Printed(procs[1], Join(fs, COMMA))

PrintedNames(ns) ==
    /\ call.tool = "list_reminders"
    /\ Printed(procs[1], EmitList(ns))

\* C8 as stated: empty output and a failed call give the empty sequence,
\* and an output of k names joined by ", " gives those k names in order.
C8_NamesSplitBack ==
    /\ (call.tool = "list_reminders" /\ procs[1].exit # 0) =>
           response.reminders = <<>>
    /\ call.tool = "list_reminders" => \A ns \in NameLists :
        (PrintedNames(ns) /\ (ns = <<>> \/ EmitList(ns) # <<>>)) =>
            response.reminders = ns

\* names that survive the join, the strip and the split: none holds ", ",
\* the first does not start with white space, the last is not empty and
\* does not end with white space
Separable(ns) ==
    ns # <<>> =>
        /\ \A i \in 1..Len(ns) : ~Contains(ns[i], COMMA_SP)
        /\ lstrip(ns[1]) = ns[1]
        /\ ns[Len(ns)] # <<>>
        /\ rstrip(ns[Len(ns)]) = ns[Len(ns)]

\* C8: empty output and a failed call give the empty sequence, never a
\* sequence of one empty string; an output of k names joined by ", " gives
\* those k names in order when no name contains ", ", the first name does
\* not start with white space and the last name is not empty and does not
\* end with white space.
C8_ListParse ==
    /\ (call.tool = "list_reminders" /\ procs[1].exit # 0) =>
           response.reminders = <<>>
    /\ call.tool = "list_reminders" => response.reminders # << <<>> >>
    /\ call.tool = "list_reminders" => \A ns \in NameLists :
        (PrintedNames(ns) /\ Separable(ns)) => response.reminders = ns

C8_Witness ==
    /\ PrintedNames(<< <<"A">>, <<"B">>, <<"C">> >>)
    /\ response.reminders = << <<"A">>, <<"B">>, <<"C">> >>

\* the application answered the last call
Answered == procs[1].stderr # "execution error"

\* C9: with a reminder named name in Reminders, two successive calls
\* complete_reminder(name) both return {result: true}, the second finds the
\* reminder completed, and the reminder is completed after each call.
C9_CompleteTwice ==
    [][ (/\ call.tool = "complete_reminder"
         /\ call'.tool = "complete_reminder"
         /\ call'.args.name = call.args.name
         /\ Answered /\ Answered'
         /\ FirstMatch(reminders, call.args.name) > 0)
        => /\ response.result
           /\ response'.result
           /\ reminders[FirstMatch(reminders, call.args.name)].completed
           /\ reminders'[FirstMatch(reminders', call.args.name)].completed ]_vars

\* C10: with a reminder named name in Reminders, get_reminder(name) returns
\* the name, body and completion flag of the first reminder of that name.
C10_GetReportsStored ==
    (/\ call.tool = "get_reminder"
     /\ Answered
     /\ FirstMatch(reminders, call.args.name) > 0)
    => LET r == reminders[FirstMatch(reminders, call.args.name)] IN
       response.result = [some |-> TRUE, name |-> r.name, body |-> r.body,
                          completed |-> r.completed]

====
